---- MODULE Spec2Model ----
(***************************************************************************)
(* Model of mycroft/audio/main.py: the AudioService session orchestration  *)
(* (play / queue / stop under service_lock) and the volume ducking         *)
(* handlers (_lower_volume / _restore_volume with its blocking sleep).     *)
(*                                                                         *)
(* Every message-bus handler is run by a caller thread.  A thread's        *)
(* handler is cut into steps at every access to the shared attribute       *)
(* self.current, at the lock, at every backend call and at the sleep, so   *)
(* that the interleavings of concurrent callers are the interleavings of   *)
(* these steps.  clear_list/add_list/play of play() touch only the local   *)
(* selected_service and are taken as one step.  The handlers that only     *)
(* read self.current (pause, resume, next, prev, track_info) and shutdown() *)
(* are cut the same way.                                                    *)
(***************************************************************************)
EXTENDS Integers, Sequences, FiniteSets, TLC

\* ---------------------------------------------------------------- bounds
MaxOps == 4          \* handler invocations delivered in one behaviour

\* ------------------------------------------------------------- constants
Grace == 2           \* time.sleep(2) in _restore_volume

Threads == {1, 2}
Backends == {1, 2}
BackendNames == <<"A", "B">>
None == 0            \* Python None for a backend reference

\* tracks are strings, i.e. sequences of characters
TrackSet == { <<"f", ":", "x">>, <<"h", ":", "x">>, <<"s">> }
Schemes == { <<"f">>, <<"h">> }
DefaultNames == {"", "A", "B"}

\* the two pairs of topics bound to _lower_volume / _restore_volume:
\* audio_output_start/_end (speech) and record_begin/_end (listening)
Sources == {"speech", "listen"}

\* the handlers that delegate to self.current without the lock
ControlOps == {"pause", "resume", "next", "previous", "track_info"}

\* message.data['tracks']: no track, one track, two tracks of different schemes
TrackLists ==
    { <<>> } \cup { << tr >> : tr \in TrackSet }
             \cup { << <<"h", ":", "x">>, <<"f", ":", "x">> >> }

\* message.data['utterance']: absent, or a text; a text is represented by
\* the set of backend names that occur in it as substrings
NoUtterance == [has |-> FALSE, names |-> {}]
Utterances ==
    {NoUtterance} \cup { [has |-> TRUE, names |-> S] : S \in (SUBSET {"A", "B"}) \ {{}} }

\* the data of a play or queue message
AllMsgs == [tracks : TrackLists, utt : Utterances]
\* the messages used where handlers of concurrent callers interleave
FewMsgs == { [tracks |-> << tr >>, utt |-> NoUtterance] :
                 tr \in { <<"f", ":", "x">>, <<"h", ":", "x">> } }

\* every registry of two backends over the schemes, and the one used where
\* handlers of concurrent callers interleave
AllRegistries == [Backends -> SUBSET Schemes]
OneRegistry == { [b \in Backends |-> IF b = 1 THEN { <<"f">> } ELSE { <<"h">> }] }

VARIABLES
    supported,      \* s.supported_uris() of every loaded backend
    default,        \* self.default
    pulse,          \* self.pulse_quiet / self.pulse_restore are set
    current,        \* self.current
    volume_is_low,  \* self.volume_is_low
    lock,           \* holder of self.service_lock, None when free
    playing,        \* backend: play() invoked and stop() not invoked since
    lowerCnt,       \* backend: number of lower_volume() calls
    restoreCnt,     \* backend: number of restore_volume() calls
    quietCalls,     \* number of pulse_quiet() calls
    pulseRestoreCalls, \* number of pulse_restore() calls
    th,             \* per caller thread: position and locals of its handler
    ops,            \* handler invocations delivered so far
    curStops,       \* stop() calls made on the session current refers to
    curAcks,        \* acknowledgements emitted for that session
    afterStop,      \* how the last stop command ended, "no" once play/queue came
    dphase,         \* progress of the duck, unduck, duck-within-grace scenario
    listening,      \* the handlers are registered on the bus (until shutdown)
    hist,           \* the ducking history below is kept in this behaviour
    active,         \* duck sources whose start signal came and end did not
    low,            \* backend: its last volume call was lower_volume()
    quiet           \* calls made since the last duck signal

vars == << supported, default, pulse, current, volume_is_low, lock, playing,
           lowerCnt, restoreCnt, quietCalls, pulseRestoreCalls, th, ops,
           curStops, curAcks, afterStop, dphase, listening, hist, active,
           low, quiet >>

config == << supported, default, pulse >>
backend == << playing, lowerCnt, restoreCnt, quietCalls, pulseRestoreCalls >>
duckhist == << active, low, quiet >>

\* ------------------------------------------------------- pure functions

Name(b) == BackendNames[b]

\* tracks[0].split(':')[0]
ColonIdx(s) ==
    IF \E i \in 1..Len(s) : s[i] = ":"
    THEN CHOOSE i \in 1..Len(s) : s[i] = ":" /\ \A j \in 1..(i - 1) : s[j] # ":"
    ELSE Len(s) + 1

UriType(track) == SubSeq(track, 1, ColonIdx(track) - 1)

\* for s in self.service: if s.name == default_name ... else None
RECURSIVE FindDefaultFrom(_, _)
FindDefaultFrom(i, default_name) ==
    IF i \notin Backends THEN None
    ELSE IF Name(i) = default_name THEN i
    ELSE FindDefaultFrom(i + 1, default_name)

FindDefault(default_name) == FindDefaultFrom(1, default_name)

\* for s in self.service: if 'utterance' in data and s.name in utterance
RECURSIVE PreferedFrom(_, _)
PreferedFrom(i, utt) ==
    IF i \notin Backends THEN None
    ELSE IF utt.has /\ Name(i) \in utt.names THEN i
    ELSE PreferedFrom(i + 1, utt)

PreferedService(utt) == PreferedFrom(1, utt)

\* variant: the search falls back on the first backend when none supports
SearchServicesFallback(i, uri_type, sup) ==
    IF \E b \in Backends : b >= i /\ uri_type \in sup[b]
    THEN CHOOSE b \in Backends : /\ b >= i /\ uri_type \in sup[b]
                                 /\ \A c \in Backends :
                                      (c >= i /\ uri_type \in sup[c]) => b <= c
    ELSE 1

\* for s in self.service: if uri_type in s.supported_uris(): ... break
RECURSIVE SearchServices(_, _, _)
SearchServices(i, uri_type, sup) ==
    IF i \notin Backends THEN None
    ELSE IF uri_type \in sup[i] THEN i
    ELSE SearchServices(i + 1, uri_type, sup)

\* variant: the default backend is not consulted
SelectServiceNoDefault(uri_type, prefered_service, dflt, sup) ==
    IF prefered_service # None /\ uri_type \in sup[prefered_service]
    THEN prefered_service
    ELSE SearchServices(1, uri_type, sup)

\* the if / elif / else of play(); None when play() returns at line 374
SelectService(uri_type, prefered_service, dflt, sup) ==
    IF prefered_service # None /\ uri_type \in sup[prefered_service]
    THEN prefered_service
    ELSE IF dflt # None /\ uri_type \in sup[dflt]
    THEN dflt
    ELSE SearchServices(1, uri_type, sup)

\* backend calls, as recorded in the call log of a handler
Call(op, b, arg) == [op |-> op, b |-> b, arg |-> arg]

\* selected_service.clear_list(); .add_list(tracks); .play()
PlayCallSeq(b, tracks) ==
    << Call("clear_list", b, <<>>), Call("add_list", b, tracks), Call("play", b, <<>>) >>

\* variant: queue replaces the list and restarts playback
QueueCallSeqReplay(b, tracks) ==
    << Call("clear_list", b, <<>>), Call("add_list", b, tracks), Call("play", b, <<>>) >>

\* self.current.add_list(tracks) of _queue
QueueCallSeq(b, tracks) == << Call("add_list", b, tracks) >>

\* play(tracks, prefered_service) entered with no session: the session it
\* leaves, the backend calls it makes, the exception it ends with
PlayOutcome(tracks, prefered_service, dflt, sup) ==
    IF tracks = <<>>
    THEN [current |-> None, calls |-> <<>>, err |-> "IndexError"]
    ELSE LET s == SelectService(UriType(tracks[1]), prefered_service, dflt, sup)
         IN  [current |-> s,
              calls |-> IF s = None THEN <<>> ELSE PlayCallSeq(s, tracks),
              err |-> ""]

\* variant: the acknowledgement is emitted whatever stop() returned
StopEmitsAlways(ok, name) == << name >>

\* if self.current.stop(): self.ws.emit(Message("mycroft.stop.handled", ...))
StopEmits(ok, name) == IF ok THEN << name >> ELSE << >>

\* variant: current is cleared only when stop() returned true
CurrentKeptOnFailure(ok, cur) == IF ok THEN None ELSE cur

\* self.current = None, executed whatever stop() returned
CurrentAfterStop(ok, cur) == None

\* --------------------------------------------------------------- threads

Snapshot == [current |-> current, playing |-> playing,
             volume_is_low |-> volume_is_low, afterStop |-> afterStop]

Idle == [pc |-> "idle", kind |-> "none", tracks |-> <<>>, utt |-> NoUtterance,
         pref |-> None, sel |-> None, name |-> "", ok |-> FALSE, ret |-> "done",
         timer |-> 0, calls |-> <<>>, acks |-> <<>>, err |-> "", obs |-> None,
         op |-> "", reply |-> "", logged |-> FALSE, i |-> 0, raised |-> {},
         src |-> "", inWin |-> FALSE,
         pre |-> [current |-> None, playing |-> [b \in Backends |-> FALSE],
                  volume_is_low |-> FALSE, afterStop |-> "no"]]

\* no duck signal yet / a duck signal just came: the calls counted since
NoQuiet == [open |-> FALSE, duck |-> 0, restore_volume |-> 0, restore |-> 0]
NewQuiet == [open |-> TRUE, duck |-> 0, restore_volume |-> 0, restore |-> 0]

\* the state after __init__ and load_services_callback
InitWith(registries, default_names, pulses) ==
    /\ supported \in registries
    /\ \E default_name \in default_names : default = FindDefault(default_name)
    /\ pulse \in pulses
    /\ current = None
    /\ volume_is_low = FALSE
    /\ lock = None
    /\ playing = [b \in Backends |-> FALSE]
    /\ lowerCnt = [b \in Backends |-> 0]
    /\ restoreCnt = [b \in Backends |-> 0]
    /\ quietCalls = 0
    /\ pulseRestoreCalls = 0
    /\ th = [t \in Threads |-> Idle]
    /\ ops = 0
    /\ curStops = 0
    /\ curAcks = 0
    /\ afterStop = "no"
    /\ dphase = 0
    /\ listening = TRUE
    /\ active = {}
    /\ low = [b \in Backends |-> FALSE]
    /\ quiet = NoQuiet

Init == InitWith(OneRegistry, {""}, {TRUE}) /\ hist = FALSE

SerialInit == InitWith(AllRegistries, DefaultNames, BOOLEAN) /\ hist = FALSE

\* the state the signal handlers are followed from, with their history kept
SignalInit == InitWith(OneRegistry, {""}, {TRUE}) /\ hist = TRUE

\* a handler is entered: fresh locals; under serial delivery the state it
\* starts from is noted, to be compared with the state it returns in
Enter(kind, tracks, utt, pc, serial) ==
    [Idle EXCEPT !.pc = pc, !.kind = kind, !.tracks = tracks, !.utt = utt,
                 !.pre = IF serial THEN Snapshot ELSE Idle.pre]

Raise(t, e) == [th EXCEPT ![t].pc = "done", ![t].err = e]

OthersIdle(t) == \A u \in Threads \ {t} : th[u].pc = "idle"

\* the message bus delivers a command to a caller thread; under serial
\* delivery one thread runs every handler, a handler at a time
Deliver(t, serial) ==
    /\ th[t].pc = "idle"
    /\ listening
    /\ ops < MaxOps
    /\ serial => t = 1

SumOf(f) == f[1] + f[2]

\* variant: the critical section is entered without waiting for the lock
LockIgnored(l) == TRUE

\* with self.service_lock: the lock can be taken
LockFree(l) == l = None

\* variant: _queue starts playback without a prefered service
QueuePreferedNone(utt) == None

\* the _play(message) called by _queue takes the prefered service from the
\* queue message
QueuePrefered(utt) == PreferedService(utt)

\* ws.on('mycroft.audio.service.play', self._play): _play computes the
\* prefered service and calls play(), whose first statement is self._stop()
PlayCmd(t, Msgs, serial) ==
    /\ Deliver(t, serial)
    /\ \E m \in Msgs :
         th' = [th EXCEPT ![t] = [Enter("play", m.tracks, m.utt, "s_lock", serial)
                                    EXCEPT !.pref = PreferedService(m.utt),
                                           !.ret = "p_sel"]]
    /\ ops' = ops + 1
    /\ afterStop' = "no"
    /\ dphase' = IF dphase = 0 \/ serial THEN 0 ELSE -1
    /\ UNCHANGED << config, current, volume_is_low, lock, backend, curStops, curAcks >>
    /\ UNCHANGED << listening, hist, duckhist >>

\* ws.on('mycroft.audio.service.queue', self._queue)
QueueCmd(t, Msgs, serial) ==
    /\ Deliver(t, serial)
    /\ \E m \in Msgs :
         th' = [th EXCEPT ![t] = Enter("queue", m.tracks, m.utt, "q_chk", serial)]
    /\ ops' = ops + 1
    /\ afterStop' = "no"
    /\ dphase' = IF dphase = 0 \/ serial THEN 0 ELSE -1
    /\ UNCHANGED << config, current, volume_is_low, lock, backend, curStops, curAcks >>
    /\ UNCHANGED << listening, hist, duckhist >>

\* play() is between the return of its own self._stop() and the assignment
\* self.current = selected_service
InPlayTail(u) == th[u].pc \in {"p_sel", "p_calls", "p_set"}

\* ws.on('mycroft.audio.service.stop', self._stop)
StopCmd(t, serial) ==
    /\ Deliver(t, serial)
    /\ th' = [th EXCEPT ![t] = [Enter("stop", <<>>, NoUtterance, "s_lock", serial)
                                  EXCEPT !.inWin = \E u \in Threads \ {t} : InPlayTail(u)]]
    /\ ops' = ops + 1
    /\ dphase' = IF dphase = 0 \/ serial THEN 0 ELSE -1
    /\ UNCHANGED << config, current, volume_is_low, lock, backend, curStops,
                    curAcks, afterStop >>
    /\ UNCHANGED << listening, hist, duckhist >>

\* with self.service_lock:
StopLock(t) ==
    /\ th[t].pc = "s_lock"
    /\ LockFree(lock)
    /\ lock' = t
    /\ th' = [th EXCEPT ![t].pc = "s_chk"]
    /\ UNCHANGED << config, current, volume_is_low, backend, ops, curStops,
                    curAcks, afterStop, dphase >>
    /\ UNCHANGED << listening, hist, duckhist >>

\* if self.current:
StopCheck(t) ==
    /\ th[t].pc = "s_chk"
    /\ th' = [th EXCEPT ![t].obs = current,
                        ![t].pc = IF current # None THEN "s_name" ELSE "s_unlock"]
    /\ UNCHANGED << config, current, volume_is_low, lock, backend, ops,
                    curStops, curAcks, afterStop, dphase >>
    /\ UNCHANGED << listening, hist, duckhist >>

\* name = self.current.name
StopName(t) ==
    /\ th[t].pc = "s_name"
    /\ th' = IF current = None
             THEN [th EXCEPT ![t].pc = "s_unlock", ![t].err = "AttributeError"]
             ELSE [th EXCEPT ![t].pc = "s_stop", ![t].name = Name(current)]
    /\ UNCHANGED << config, current, volume_is_low, lock, backend, ops,
                    curStops, curAcks, afterStop, dphase >>
    /\ UNCHANGED << listening, hist, duckhist >>

\* if self.current.stop(): self.ws.emit(...)
StopCall(t) ==
    /\ th[t].pc = "s_stop"
    /\ IF current = None
       THEN /\ th' = [th EXCEPT ![t].pc = "s_unlock", ![t].err = "AttributeError"]
            /\ UNCHANGED << playing, curStops, curAcks >>
       ELSE \E r \in BOOLEAN :
            /\ playing' = [playing EXCEPT ![current] = FALSE]
            /\ th' = [th EXCEPT ![t].pc = "s_clear", ![t].ok = r,
                        ![t].calls = Append(th[t].calls, Call("stop", current, <<>>)),
                        ![t].acks = th[t].acks \o StopEmits(r, th[t].name)]
            /\ curStops' = curStops + 1
            /\ curAcks' = curAcks + Len(StopEmits(r, th[t].name))
    /\ UNCHANGED << config, current, volume_is_low, lock, lowerCnt, restoreCnt,
                    quietCalls, pulseRestoreCalls, ops, afterStop, dphase >>
    /\ UNCHANGED << listening, hist, duckhist >>

\* self.current = None
StopClear(t) ==
    /\ th[t].pc = "s_clear"
    /\ current' = CurrentAfterStop(th[t].ok, current)
    /\ th' = [th EXCEPT ![t].pc = "s_unlock"]
    /\ curStops' = IF current' = None THEN 0 ELSE curStops
    /\ curAcks' = IF current' = None THEN 0 ELSE curAcks
    /\ UNCHANGED << config, volume_is_low, lock, backend, ops, afterStop, dphase >>
    /\ UNCHANGED << listening, hist, duckhist >>

\* variant: play() keeps the lock of its own self._stop() for its remaining
\* statements
StopUnlockHeldByPlay(t) ==
    /\ th[t].pc = "s_unlock"
    /\ lock' = IF th[t].err = "" /\ th[t].ret = "p_sel" THEN t ELSE None
    /\ th' = [th EXCEPT ![t].pc = IF th[t].err # "" THEN "done" ELSE th[t].ret]
    /\ UNCHANGED << config, current, volume_is_low, backend, ops, curStops,
                    curAcks, afterStop, dphase >>
    /\ UNCHANGED << listening, hist, duckhist >>

\* leaving the with block releases the lock, also when an exception passes
StopUnlock(t) ==
    /\ th[t].pc = "s_unlock"
    /\ lock' = None
    /\ th' = [th EXCEPT ![t].pc = IF th[t].err # "" THEN "done" ELSE th[t].ret]
    /\ UNCHANGED << config, current, volume_is_low, backend, ops, curStops,
                    curAcks, afterStop, dphase >>
    /\ UNCHANGED << listening, hist, duckhist >>

\* uri_type = tracks[0].split(':')[0] and the selection of play()
PlaySelect(t) ==
    /\ th[t].pc = "p_sel"
    /\ th' = IF th[t].tracks = <<>>
             THEN Raise(t, "IndexError")
             ELSE LET s == SelectService(UriType(th[t].tracks[1]), th[t].pref,
                                         default, supported)
                  IN  [th EXCEPT ![t].sel = s,
                                 ![t].pc = IF s = None THEN "done" ELSE "p_calls"]
    /\ UNCHANGED << config, current, volume_is_low, lock, backend, ops,
                    curStops, curAcks, afterStop, dphase >>
    /\ UNCHANGED << listening, hist, duckhist >>

\* selected_service.clear_list(); .add_list(tracks); .play()
PlayCalls(t) ==
    /\ th[t].pc = "p_calls"
    /\ playing' = [playing EXCEPT ![th[t].sel] = TRUE]
    /\ th' = [th EXCEPT ![t].pc = "p_set",
                        ![t].calls = th[t].calls \o PlayCallSeq(th[t].sel, th[t].tracks)]
    /\ UNCHANGED << config, current, volume_is_low, lock, lowerCnt, restoreCnt,
                    quietCalls, pulseRestoreCalls, ops, curStops, curAcks,
                    afterStop, dphase >>
    /\ UNCHANGED << listening, hist, duckhist >>

\* self.current = selected_service
PlaySet(t) ==
    /\ th[t].pc = "p_set"
    /\ current' = th[t].sel
    /\ th' = [th EXCEPT ![t].pc = "done"]
    /\ curStops' = 0
    /\ curAcks' = 0
    /\ UNCHANGED << config, volume_is_low, lock, backend, ops, afterStop, dphase >>
    /\ UNCHANGED << listening, hist, duckhist >>

\* _queue: if self.current: ... else: self._play(message)
QueueCheck(t) ==
    /\ th[t].pc = "q_chk"
    /\ th' = IF current # None
             THEN [th EXCEPT ![t].pc = "q_add"]
             ELSE [th EXCEPT ![t].pc = "s_lock", ![t].ret = "p_sel",
                             ![t].pref = QueuePrefered(th[t].utt)]
    /\ UNCHANGED << config, current, volume_is_low, lock, backend, ops,
                    curStops, curAcks, afterStop, dphase >>
    /\ UNCHANGED << listening, hist, duckhist >>

\* tracks = message.data['tracks']; self.current.add_list(tracks)
QueueAdd(t) ==
    /\ th[t].pc = "q_add"
    /\ th' = IF current = None
             THEN Raise(t, "AttributeError")
             ELSE [th EXCEPT ![t].pc = "done",
                      ![t].calls = th[t].calls \o QueueCallSeq(current, th[t].tracks)]
    /\ UNCHANGED << config, current, volume_is_low, lock, backend, ops,
                    curStops, curAcks, afterStop, dphase >>
    /\ UNCHANGED << listening, hist, duckhist >>

\* the source a duck or unduck signal names, where the history is kept
SourcesKept == IF hist THEN Sources ELSE {""}

\* ws.on('recognizer_loop:audio_output_start' / 'record_begin', _lower_volume)
DuckCmd(t, serial) ==
    /\ Deliver(t, serial)
    /\ \E s \in SourcesKept :
         /\ th' = [th EXCEPT ![t] = [Enter("duck", <<>>, NoUtterance, "d_chk", serial)
                                      EXCEPT !.src = s]]
         /\ active' = IF hist THEN active \cup {s} ELSE active
    /\ quiet' = IF hist THEN NewQuiet ELSE quiet
    /\ low' = low
    /\ ops' = ops + 1
    /\ dphase' =
         IF serial THEN 0
         ELSE IF /\ dphase = 0 /\ current # None /\ OthersIdle(t)
            /\ SumOf(lowerCnt) = 0 /\ SumOf(restoreCnt) = 0
            /\ quietCalls = 0 /\ pulseRestoreCalls = 0
         THEN 1
         ELSE IF dphase = 2 /\ \E u \in Threads \ {t} :
                                  th[u].pc = "u_sleep" /\ th[u].timer > 0
         THEN 3
         ELSE -1
    /\ UNCHANGED << config, current, volume_is_low, lock, backend, curStops,
                    curAcks, afterStop >>
    /\ UNCHANGED << listening, hist >>

\* if self.current:
DuckCheck(t) ==
    /\ th[t].pc = "d_chk"
    /\ th' = [th EXCEPT ![t].pc = IF current # None THEN "d_low" ELSE "d_pulse"]
    /\ UNCHANGED << config, current, volume_is_low, lock, backend, ops,
                    curStops, curAcks, afterStop, dphase >>
    /\ UNCHANGED << listening, hist, duckhist >>

\* self.current.lower_volume()
DuckLower(t) ==
    /\ th[t].pc = "d_low"
    /\ IF current = None
       THEN /\ th' = Raise(t, "AttributeError")
            /\ UNCHANGED << lowerCnt, low >>
       ELSE /\ lowerCnt' = [lowerCnt EXCEPT ![current] = @ + 1]
            /\ low' = IF hist THEN [low EXCEPT ![current] = TRUE] ELSE low
            /\ th' = [th EXCEPT ![t].pc = "d_flag",
                        ![t].calls = Append(th[t].calls, Call("lower_volume", current, <<>>))]
    /\ UNCHANGED << config, current, volume_is_low, lock, playing, restoreCnt,
                    quietCalls, pulseRestoreCalls, ops, curStops, curAcks,
                    afterStop, dphase >>
    /\ UNCHANGED << listening, hist, active, quiet >>

\* self.volume_is_low = True
DuckFlag(t) ==
    /\ th[t].pc = "d_flag"
    /\ volume_is_low' = TRUE
    /\ th' = [th EXCEPT ![t].pc = "d_pulse"]
    /\ UNCHANGED << config, current, lock, backend, ops, curStops, curAcks,
                    afterStop, dphase >>
    /\ UNCHANGED << listening, hist, duckhist >>

\* try: ... self.pulse_quiet() except Exception as exc: LOG.error(exc)
\* the error _lower_volume ends with when pulse_quiet() raises or not
PulseQuietError(raises) == ""

\* self.pulse_restore() is called outside any try block: the error
\* _restore_volume ends with when pulse_restore() raises or not
PulseRestoreError(raises) == IF raises THEN "PulseError" ELSE ""

\* the outcomes of a call of a pulse handler: it is not installed (nothing
\* is called), or it is called and returns or raises
PulseOutcomes == IF pulse THEN BOOLEAN ELSE {FALSE}

\* if self.pulse_quiet: self.pulse_quiet(), inside try / except Exception
DuckPulse(t) ==
    /\ th[t].pc = "d_pulse"
    /\ quietCalls' = IF pulse THEN quietCalls + 1 ELSE quietCalls
    /\ quiet' = IF hist /\ pulse THEN [quiet EXCEPT !.duck = @ + 1] ELSE quiet
    /\ \E raises \in PulseOutcomes :
         th' = [th EXCEPT ![t].pc = "done",
                          ![t].logged = raises,
                          ![t].err = PulseQuietError(raises),
                          ![t].calls = IF pulse
                                       THEN Append(th[t].calls, Call("pulse_quiet", None, <<>>))
                                       ELSE th[t].calls]
    /\ UNCHANGED << config, current, volume_is_low, lock, playing, lowerCnt,
                    restoreCnt, pulseRestoreCalls, ops, curStops, curAcks,
                    afterStop, dphase >>
    /\ UNCHANGED << listening, hist, active, low >>

\* ws.on('recognizer_loop:audio_output_end' / 'record_end', _restore_volume)
UnduckCmd(t, serial) ==
    /\ Deliver(t, serial)
    /\ \E s \in SourcesKept :
         /\ th' = [th EXCEPT ![t] = [Enter("unduck", <<>>, NoUtterance, "u_chk", serial)
                                      EXCEPT !.src = s]]
         /\ active' = IF hist THEN active \ {s} ELSE active
    /\ UNCHANGED << low, quiet >>
    /\ ops' = ops + 1
    /\ dphase' = IF serial THEN 0
                 ELSE IF dphase = 1 /\ OthersIdle(t) THEN 2 ELSE -1
    /\ UNCHANGED << config, current, volume_is_low, lock, backend, curStops,
                    curAcks, afterStop >>
    /\ UNCHANGED << listening, hist >>

\* if self.current:
UnduckCheck(t) ==
    /\ th[t].pc = "u_chk"
    /\ th' = [th EXCEPT ![t].pc = IF current # None THEN "u_flag" ELSE "u_pulse"]
    /\ UNCHANGED << config, current, volume_is_low, lock, backend, ops,
                    curStops, curAcks, afterStop, dphase >>
    /\ UNCHANGED << listening, hist, duckhist >>

\* self.volume_is_low = False; time.sleep(2) begins
UnduckFlag(t) ==
    /\ th[t].pc = "u_flag"
    /\ volume_is_low' = FALSE
    /\ th' = [th EXCEPT ![t].pc = "u_sleep", ![t].timer = Grace]
    /\ UNCHANGED << config, current, lock, backend, ops, curStops, curAcks,
                    afterStop, dphase >>
    /\ UNCHANGED << listening, hist, duckhist >>

\* one unit of time passes for every sleeping thread
Tick ==
    /\ \E t \in Threads : th[t].pc = "u_sleep" /\ th[t].timer > 0
    /\ th' = [t \in Threads |->
                IF th[t].pc = "u_sleep" /\ th[t].timer > 0
                THEN [th[t] EXCEPT !.timer = @ - 1] ELSE th[t]]
    /\ UNCHANGED << config, current, volume_is_low, lock, backend, ops,
                    curStops, curAcks, afterStop, dphase >>
    /\ UNCHANGED << listening, hist, duckhist >>

\* the sleep is over: if not self.volume_is_low:
UnduckWake(t) ==
    /\ th[t].pc = "u_sleep"
    /\ th[t].timer = 0
    /\ th' = [th EXCEPT ![t].pc = IF ~volume_is_low THEN "u_rest" ELSE "u_pulse"]
    /\ UNCHANGED << config, current, volume_is_low, lock, backend, ops,
                    curStops, curAcks, afterStop, dphase >>
    /\ UNCHANGED << listening, hist, duckhist >>

\* self.current.restore_volume()
UnduckRestore(t) ==
    /\ th[t].pc = "u_rest"
    /\ IF current = None
       THEN /\ th' = Raise(t, "AttributeError")
            /\ UNCHANGED << restoreCnt, low, quiet >>
       ELSE /\ restoreCnt' = [restoreCnt EXCEPT ![current] = @ + 1]
            /\ low' = IF hist THEN [low EXCEPT ![current] = FALSE] ELSE low
            /\ quiet' = IF hist THEN [quiet EXCEPT !.restore_volume = @ + 1]
                         ELSE quiet
            /\ th' = [th EXCEPT ![t].pc = "u_pulse",
                        ![t].calls = Append(th[t].calls, Call("restore_volume", current, <<>>))]
    /\ UNCHANGED << config, current, volume_is_low, lock, playing, lowerCnt,
                    quietCalls, pulseRestoreCalls, ops, curStops, curAcks,
                    afterStop, dphase >>
    /\ UNCHANGED << listening, hist, active >>

\* the pulse_restore() call either returns or raises; _restore_volume has no
\* handler around it, so the exception leaves _restore_volume
\* if self.pulse_restore: self.pulse_restore()
UnduckPulse(t) ==
    /\ th[t].pc = "u_pulse"
    /\ pulseRestoreCalls' = IF pulse THEN pulseRestoreCalls + 1 ELSE pulseRestoreCalls
    /\ quiet' = IF hist /\ pulse THEN [quiet EXCEPT !.restore = @ + 1] ELSE quiet
    /\ \E raises \in PulseOutcomes :
         th' = [th EXCEPT ![t].pc = "done",
                          ![t].err = PulseRestoreError(raises),
                          ![t].calls = IF pulse
                                       THEN Append(th[t].calls, Call("pulse_restore", None, <<>>))
                                       ELSE th[t].calls]
    /\ UNCHANGED << config, current, volume_is_low, lock, playing, lowerCnt,
                    restoreCnt, quietCalls, ops, curStops, curAcks, afterStop,
                    dphase >>
    /\ UNCHANGED << listening, hist, active, low >>

\* ws.on('mycroft.audio.service.pause' / 'resume' / 'next' / 'prev' /
\* 'track_info', ...): the handlers that delegate to self.current
ControlCmd(t, serial) ==
    /\ Deliver(t, serial)
    /\ \E op \in ControlOps :
         th' = [th EXCEPT ![t] = [Enter("control", <<>>, NoUtterance, "c_chk", serial)
                                    EXCEPT !.op = op]]
    /\ ops' = ops + 1
    /\ dphase' = IF dphase = 0 \/ serial THEN 0 ELSE -1
    /\ UNCHANGED << config, current, volume_is_low, lock, backend, curStops,
                    curAcks, afterStop >>
    /\ UNCHANGED << listening, hist, duckhist >>

\* what _track_info emits when self.current is unset: track_info = {}
EmptyReply(op) == IF op = "track_info" THEN "empty" ELSE ""

\* if self.current: (the first read of self.current, without the lock)
ControlCheck(t) ==
    /\ th[t].pc = "c_chk"
    /\ th' = IF current # None
             THEN [th EXCEPT ![t].pc = "c_call", ![t].obs = current]
             ELSE [th EXCEPT ![t].pc = "done", ![t].reply = EmptyReply(th[t].op)]
    /\ UNCHANGED << config, current, volume_is_low, lock, backend, ops,
                    curStops, curAcks, afterStop, dphase >>
    /\ UNCHANGED << listening, hist, duckhist >>

\* self.current.pause() and the like: the second read of self.current
ControlCall(t) ==
    /\ th[t].pc = "c_call"
    /\ th' = IF current = None
             THEN Raise(t, "AttributeError")
             ELSE [th EXCEPT ![t].pc = "done",
                        ![t].calls = Append(th[t].calls, Call(th[t].op, current, <<>>)),
                        ![t].reply = IF th[t].op = "track_info" THEN "info" ELSE ""]
    /\ UNCHANGED << config, current, volume_is_low, lock, backend, ops,
                    curStops, curAcks, afterStop, dphase >>
    /\ UNCHANGED << listening, hist, duckhist >>

\* audio.shutdown() is called once, by main() after the exit signal
ShutdownCmd(t, serial) ==
    /\ Deliver(t, serial)
    /\ \A u \in Threads : th[u].kind # "shutdown"
    /\ th' = [th EXCEPT ![t] = [Enter("shutdown", <<>>, NoUtterance, "x_loop", serial)
                                  EXCEPT !.i = 1]]
    /\ ops' = ops + 1
    /\ dphase' = IF dphase = 0 \/ serial THEN 0 ELSE -1
    /\ UNCHANGED << config, current, volume_is_low, lock, backend, curStops,
                    curAcks, afterStop >>
    /\ UNCHANGED << listening, hist, duckhist >>

\* variant: a backend whose shutdown() raises ends the loop
ShutdownNextAbort(i, raises) == IF raises THEN Len(BackendNames) + 1 ELSE i + 1

\* for s in self.service: try: s.shutdown() except Exception: LOG.error(...)
\* the index of the backend the loop goes on with
ShutdownNext(i, raises) == i + 1

\* one round of the loop: s.shutdown() returns or raises
ShutdownBackend(t) ==
    /\ th[t].pc = "x_loop"
    /\ th[t].i <= Len(BackendNames)
    /\ \E raises \in BOOLEAN :
         th' = [th EXCEPT ![t].calls = Append(th[t].calls, Call("shutdown", th[t].i, <<>>)),
                          ![t].raised = IF raises THEN th[t].raised \cup {th[t].i}
                                        ELSE th[t].raised,
                          ![t].i = ShutdownNext(th[t].i, raises)]
    /\ UNCHANGED << config, current, volume_is_low, lock, backend, ops,
                    curStops, curAcks, afterStop, dphase >>
    /\ UNCHANGED << listening, hist, duckhist >>

\* # remove listeners: the ws.remove(...) calls after the loop
ShutdownRemove(t) ==
    /\ th[t].pc = "x_loop"
    /\ th[t].i > Len(BackendNames)
    /\ listening' = FALSE
    /\ th' = [th EXCEPT ![t].pc = "done"]
    /\ UNCHANGED << config, current, volume_is_low, lock, backend, ops,
                    curStops, curAcks, afterStop, dphase >>
    /\ UNCHANGED << hist, duckhist >>

\* the handler returns to the message bus
Return(t, serial) ==
    /\ th[t].pc = "done"
    /\ th' = [th EXCEPT ![t] = Idle]
    /\ afterStop' = IF serial /\ th[t].kind = "stop"
                    THEN (IF th[t].calls = <<>> THEN "idle"
                          ELSE IF th[t].ok THEN "acked" ELSE "failed")
                    ELSE afterStop
    /\ UNCHANGED << config, current, volume_is_low, lock, backend, ops,
                    curStops, curAcks, dphase >>
    /\ UNCHANGED << listening, hist, duckhist >>

Step(t, Msgs, serial) ==
    \/ PlayCmd(t, Msgs, serial) \/ QueueCmd(t, Msgs, serial) \/ StopCmd(t, serial)
    \/ DuckCmd(t, serial) \/ UnduckCmd(t, serial)
    \/ StopLock(t) \/ StopCheck(t) \/ StopName(t) \/ StopCall(t)
    \/ StopClear(t) \/ StopUnlock(t)
    \/ PlaySelect(t) \/ PlayCalls(t) \/ PlaySet(t)
    \/ QueueCheck(t) \/ QueueAdd(t)
    \/ DuckCheck(t) \/ DuckLower(t) \/ DuckFlag(t) \/ DuckPulse(t)
    \/ UnduckCheck(t) \/ UnduckFlag(t) \/ UnduckWake(t) \/ UnduckRestore(t)
    \/ UnduckPulse(t)
    \/ ControlCmd(t, serial) \/ ControlCheck(t) \/ ControlCall(t)
    \/ ShutdownCmd(t, serial) \/ ShutdownBackend(t) \/ ShutdownRemove(t)
    \/ Return(t, serial)

\* commands of concurrent callers: handlers interleave step by step
Next == (\E t \in Threads : Step(t, FewMsgs, FALSE)) \/ Tick

Spec == Init /\ [][Next]_vars

\* commands delivered one at a time: a handler returns before the next starts
SerialNext == (\E t \in Threads : Step(t, AllMsgs, TRUE)) \/ Tick

SerialSpec == SerialInit /\ [][SerialNext]_vars

\* the same serial delivery, with the history of the duck signals kept
SignalNext == (\E t \in Threads : Step(t, FewMsgs, TRUE)) \/ Tick

SignalSpec == SignalInit /\ [][SignalNext]_vars

\* ================================================================ claims

Done(t, kind) == th[t].pc = "done" /\ th[t].kind = kind

StopOn(b) == Call("stop", b, <<>>)

\* the backends a call log invokes op on
CalledOn(calls, op) == { calls[i].b : i \in { j \in 1..Len(calls) : calls[j].op = op } }

\* the selection precedence, stated on the registry
Supports(b, scheme) == scheme \in supported[b]

Chosen(scheme, preferred) ==
    IF preferred # None /\ Supports(preferred, scheme) THEN preferred
    ELSE IF default # None /\ Supports(default, scheme) THEN default
    ELSE IF \E b \in Backends : Supports(b, scheme)
    THEN CHOOSE b \in Backends :
             Supports(b, scheme) /\ \A c \in Backends : Supports(c, scheme) => b <= c
    ELSE None

\* C1: play(tracks, preferred) with a non-empty track list leaves as current,
\* and has invoked play() on, exactly: preferred if it supports the scheme of
\* tracks[0]; else the default if set and supporting; else the first backend
\* in registration order that supports it; and when no backend supports the
\* scheme, current is unset and play() was invoked on no backend.
C1_SelectionPrecedence ==
    \A t \in Threads :
        (Done(t, "play") /\ th[t].tracks # <<>>) =>
            LET e == Chosen(UriType(th[t].tracks[1]), th[t].pref)
            IN  /\ current = e
                /\ CalledOn(th[t].calls, "play") = (IF e = None THEN {} ELSE {e})

\* a play whose preferred and default backend both lack the scheme and that
\* fell back on a later registered backend
C1_Witness ==
    \E t \in Threads :
        /\ Done(t, "play")
        /\ th[t].pref # None /\ default # None
        /\ current # None /\ current # th[t].pref /\ current # default
        /\ CalledOn(th[t].calls, "play") = {current}

\* C2: in every interleaving of play, queue and stop of concurrent callers at
\* most one backend is playing (play() invoked on it, stop() not since).
C2_SingleSession == Cardinality({ b \in Backends : playing[b] }) <= 1

\* C3: a stop() that finds a session emits the acknowledgement, tagged with
\* the name of the backend that was current, iff that backend's stop()
\* returned true, and leaves current unset whatever stop() returned.
C3_StopAck ==
    \A t \in Threads :
        (Done(t, "stop") /\ th[t].pre.current # None) =>
            /\ th[t].calls = << StopOn(th[t].pre.current) >>
            /\ th[t].acks = (IF th[t].ok THEN << Name(th[t].pre.current) >> ELSE << >>)
            /\ current = None

\* a stop() whose backend returned false
C3_Witness ==
    \E t \in Threads :
        /\ Done(t, "stop") /\ th[t].pre.current # None
        /\ ~th[t].ok /\ th[t].calls # <<>>

\* C4: of the stop() calls (play()'s own included) that run concurrently, the
\* one that finds the session calls the backend's stop() once; no session has
\* stop() called on it twice or is acknowledged twice; a stop() that finds
\* current unset calls nothing and emits nothing.
C4_OneStopPerSession ==
    /\ curStops <= 1
    /\ curAcks <= 1
    /\ \A t \in Threads :
         (th[t].pc = "s_unlock" /\ th[t].err = "") =>
            /\ th[t].acks \in { << >>, << th[t].name >> }
            /\ IF th[t].obs = None
               THEN th[t].calls = <<>> /\ th[t].acks = <<>>
               ELSE Len(th[t].calls) = 1 /\ th[t].calls[1].op = "stop"

\* one caller has called stop() on the session and still holds the lock
\* while the stop() inside another caller's play() waits for it
C4_Witness ==
    \E t, u \in Threads :
        /\ th[t].pc = "s_clear" /\ th[t].kind = "stop"
        /\ th[u].pc = "s_lock" /\ th[u].kind = "play"

\* C5: with a session active throughout, duck, unduck, and a second duck
\* before the grace interval has elapsed give exactly one lower_volume() and
\* one external duck call and no restore_volume() or external restore call.
C5_DuckCancelsRestore ==
    dphase = 3 =>
        /\ SumOf(lowerCnt) = 1
        /\ quietCalls = 1
        /\ SumOf(restoreCnt) = 0
        /\ pulseRestoreCalls = 0

\* what a handler that has returned left behind
Outcome(t) == [current |-> current, calls |-> th[t].calls, err |-> th[t].err]

\* the first registered backend whose name occurs in the utterance
Named(utt) ==
    IF utt.has /\ \E b \in Backends : Name(b) \in utt.names
    THEN CHOOSE b \in Backends :
             Name(b) \in utt.names /\ \A c \in Backends : Name(c) \in utt.names => b <= c
    ELSE None

C7_QueueOnlyAppends ==
    \A t \in Threads :
        (Done(t, "queue") /\ th[t].pre.current # None) =>
            /\ th[t].calls = << Call("add_list", th[t].pre.current, th[t].tracks) >>
            /\ th[t].acks = <<>>
            /\ th[t].err = ""
            /\ current = th[t].pre.current
            /\ playing = th[t].pre.playing

C7_Witness ==
    \E t \in Threads :
        /\ Done(t, "queue") /\ th[t].pre.current # None
        /\ Len(th[t].tracks) = 2
        /\ Len(th[t].calls) = 1

\* C8: a stop() that follows a stop() with no play or queue in between finds
\* no session, calls no backend, emits nothing and changes nothing.
C8_StopIdempotent ==
    \A t \in Threads :
        (Done(t, "stop") /\ th[t].pre.afterStop # "no") =>
            /\ th[t].pre.current = None
            /\ th[t].calls = <<>>
            /\ th[t].acks = <<>>
            /\ th[t].err = ""
            /\ current = None
            /\ playing = th[t].pre.playing
            /\ volume_is_low = th[t].pre.volume_is_low

\* the second stop() after a stop() whose backend returned false
C8_Witness ==
    \E t \in Threads : Done(t, "stop") /\ th[t].pre.afterStop = "failed"

\* C9: play() with an empty track list raises nothing, calls no backend and
\* leaves current as it was.
C9_EmptyTracksNoOp ==
    \A t \in Threads :
        (Done(t, "play") /\ th[t].tracks = <<>>) =>
            /\ th[t].err = ""
            /\ th[t].calls = <<>>
            /\ current = th[t].pre.current

NoSupport(scheme) == \A b \in Backends : ~Supports(b, scheme)

\* C10 as stated: play() of a scheme no backend supports changes nothing:
\* current and every backend's playing status are as before the call.
C10_NotFoundNoChange ==
    \A t \in Threads :
        (Done(t, "play") /\ th[t].tracks # <<>> /\ NoSupport(UriType(th[t].tracks[1]))) =>
            /\ th[t].err = ""
            /\ current = th[t].pre.current
            /\ playing = th[t].pre.playing

\* C10 amended: play() of a scheme no backend supports raises nothing and
\* starts no backend; its only effect is that of its initial stop(): a
\* session active before is stopped and current is unset afterwards.
C10_NotFoundOnlyStops ==
    \A t \in Threads :
        (Done(t, "play") /\ th[t].tracks # <<>> /\ NoSupport(UriType(th[t].tracks[1]))) =>
            /\ th[t].err = ""
            /\ current = None
            /\ th[t].calls = (IF th[t].pre.current = None THEN <<>>
                              ELSE << StopOn(th[t].pre.current) >>)
            /\ playing = [b \in Backends |->
                             th[t].pre.playing[b] /\ b # th[t].pre.current]
            /\ volume_is_low = th[t].pre.volume_is_low

\* a play() of an unsupported scheme that ended an active session
C10_Witness ==
    \E t \in Threads :
        /\ Done(t, "play") /\ th[t].tracks # <<>>
        /\ NoSupport(UriType(th[t].tracks[1]))
        /\ th[t].pre.current # None /\ current = None

\* ---------------------------------------------------------------- C11
\* C11: when the external duck() (pulse_quiet) or the external restore()
\* (pulse_restore) raises, the duck handler and the unduck handler both swallow
\* the failure: neither ends with the exception of the pulse call.
C11_PulseFailureSwallowed ==
    \A t \in Threads :
        th[t].kind \in {"duck", "unduck"} => th[t].err # "PulseError"

\* ---------------------------------------------------------------- C12
\* C12: when shutdown() has completed, current is unset, whatever session was
\* active when it was called.
C12_ShutdownClearsSession ==
    \A t \in Threads : Done(t, "shutdown") => current = None

\* ---------------------------------------------------------------- C13
\* one shutdown() call on every registered backend, in registration order
ShutdownCalls == [b \in 1..Len(BackendNames) |-> Call("shutdown", b, <<>>)]

\* C13: shutdown() calls shutdown() exactly once on every registered backend,
\* in registration order, whichever of these calls raise, and does not raise
\* itself.
C13_ShutdownReachesAll ==
    \A t \in Threads :
        Done(t, "shutdown") => th[t].calls = ShutdownCalls /\ th[t].err = ""

\* the first backend's shutdown() raised and the second was still called
C13_Witness ==
    \E t \in Threads :
        /\ Done(t, "shutdown")
        /\ th[t].raised = {1}
        /\ th[t].calls = ShutdownCalls

\* ---------------------------------------------------------------- C14
\* C14: a pause / resume / next / previous / track_info handler that runs
\* concurrently with stop() never fails: it delegates to the backend that was
\* current or does nothing.
C14_ControlNeverFails ==
    \A t \in Threads : th[t].kind = "control" => th[t].err = ""

\* ---------------------------------------------------------------- C15
\* C15: between one duck signal and the next, at most one external duck()
\* call, at most one restore_volume() call and at most one external restore()
\* call are made, however many unduck signals arrive.
C15_OncePerQuietInterval ==
    quiet.open => /\ quiet.duck <= 1
                  /\ quiet.restore_volume <= 1
                  /\ quiet.restore <= 1

\* ---------------------------------------------------------------- C16
\* C16: when current was cleared during the grace interval of an unduck
\* signal, the delayed restore calls restore_volume() on nothing and the
\* handler completes without failing.
C16_DelayedRestoreChecksCurrent ==
    \A t \in Threads : th[t].kind = "unduck" => th[t].err # "AttributeError"

\* ---------------------------------------------------------------- C17
\* C17: the statements of play() after its own stop run without the lock, so
\* that a stop() arriving in that window can take the lock, call stop() on the
\* backend the play() started and reset the current the play() assigned.
C17_PlayTailUnlocked ==
    \A t \in Threads : InPlayTail(t) => lock # t

\* a stop() came while the only play() was in the window; it then stopped the
\* backend that play() had started and cleared the current that play() had set
C17_Witness ==
    \E t \in Threads : \E u \in Threads \ {t} :
        /\ ops = 2
        /\ th[t].kind = "stop" /\ th[t].inWin
        /\ th[t].pc = "s_unlock"
        /\ Done(u, "play") /\ th[u].err = "" /\ th[u].sel # None
        /\ th[t].calls = << StopOn(th[u].sel) >>
        /\ current = None

\* ---------------------------------------------------------------- C18
\* C18: on every backend, the number of restore_volume() calls never exceeds
\* the number of lower_volume() calls.
C18_RestoreOnlyAfterLower ==
    \A b \in Backends : restoreCnt[b] <= lowerCnt[b]

\* ---------------------------------------------------------------- C19
\* C19: when the handler of a final unduck signal has completed (the grace
\* interval is over and no source is active), no backend is left with a
\* lower_volume() that no restore_volume() followed.
C19_LoweredIsRestored ==
    \A t \in Threads :
        Done(t, "unduck") /\ th[t].err = "" /\ active = {}
            => \A b \in Backends : ~low[b]

\* ---------------------------------------------------------------- C20
RestoreOps == {"restore_volume", "pulse_restore"}

\* C20: the end signal of one duck source, received while the other source is
\* still active, leads to no restore_volume() and no external restore() call.
C20_RestoreWaitsForBothSources ==
    \A t \in Threads :
        Done(t, "unduck") /\ active # {}
            => \A i \in 1..Len(th[t].calls) : th[t].calls[i].op \notin RestoreOps

====
